---- MODULE Spec2Model ----
(***************************************************************************)
(* A model of the catalog front-end: the search-submission view            *)
(* (SearchForm, two revisions), the catalog list view (ProductList, two    *)
(* revisions), the product page (ProductDetail) and the probing image      *)
(* gallery (ProductImages).  Every view keeps its React state in one       *)
(* record whose fields carry the names of the useState hooks of the source.*)
(*                                                                         *)
(* A state of the model is a committed render.  An event handler's         *)
(* setState calls are batched into one commit; the effects that commit     *)
(* schedules run as steps of their own, before any further event.          *)
(***************************************************************************)
EXTENDS Integers, Sequences, FiniteSets, TLC

VARIABLES
    sfRev,        \* which SearchForm revision is mounted (1: with limit, 2: category select)
    searchForm,   \* SearchForm's useState hooks
    sfPosts,      \* POST /api/start-parsing/ requests in flight (their bodies)
    sfCatReq,     \* revision 2: GET /api/products/ of fetchCategories in flight
    sfLast,       \* history: the last event of the view and the form values at the last submit
    plRev,        \* which ProductList revision is mounted (1: ProductList.js, 2: the slider revision)
    productList,  \* ProductList's useState and useRef hooks
    plEffects,    \* the effects the last commit scheduled and that have not run yet
    plTimer,      \* revision 1: the pending setTimeout of the fetch effect (its closure), or NoTimer
    plFetches,    \* the fetches in flight: the closure of fetchProducts / fetchChartsData
    plLocation,   \* revision 2: the page parameter of location.search, NoPage if absent
    plPace,       \* the user acts while at most this many fetches are outstanding
    plLast,       \* history: the last user event and what the requests issued since were
    piProduct,    \* ProductImages: the product prop
    productImages,\* ProductImages' useState hooks
    piLoad,       \* the run of loadImages: its locals and the probes it has started
    productDetail,\* ProductDetail's useState hooks
    pdEffects,    \* the effects of ProductDetail that have not run yet
    pdRequests,   \* GET /api/products/:id/ requests in flight
    pdLast,       \* history: how the last request for the product ended
    pgProps,      \* ProductGallery: the props images and mainImage
    productGallery,\* ProductGallery's useState hooks, and whether its effect has thrown
    pgEffects     \* the effects of ProductGallery that have not run yet

sfVars == <<sfRev, searchForm, sfPosts, sfCatReq, sfLast>>

plVars == <<plRev, productList, plEffects, plTimer, plFetches, plLocation, plPace, plLast>>

piVars == <<piProduct, productImages, piLoad>>

pdVars == <<productDetail, pdEffects, pdRequests, pdLast>>

pgVars == <<pgProps, productGallery, pgEffects>>

viewVars == <<piVars, pdVars, pgVars>>

vars == <<sfRev, searchForm, sfPosts, sfCatReq, sfLast,
          plRev, productList, plEffects, plTimer, plFetches, plLocation, plPace, plLast,
          piProduct, productImages, piLoad, productDetail, pdEffects, pdRequests, pdLast,
          pgProps, productGallery, pgEffects>>

----------------------------------------------------------------------------
(* Strings are sequences of one-character strings, so that trim() is       *)
(* computed and not assumed.                                               *)

MaxLen == 2

Chars == {" ", "a"}

RECURSIVE StringsUpTo(_)
StringsUpTo(n) ==
    IF n = 0 THEN {<<>>}
    ELSE LET S == StringsUpTo(n - 1)
         IN  S \cup {Append(s, c) : s \in {t \in S : Len(t) = n - 1}, c \in Chars}

TypedStrings == StringsUpTo(MaxLen)

IsSpace(c) == c = " "

RECURSIVE TrimStart(_)
TrimStart(s) ==
    IF s = <<>> THEN <<>>
    ELSE IF IsSpace(Head(s)) THEN TrimStart(Tail(s)) ELSE s

RECURSIVE TrimEnd(_)
TrimEnd(s) ==
    IF s = <<>> THEN <<>>
    ELSE IF IsSpace(s[Len(s)]) THEN TrimEnd(SubSeq(s, 1, Len(s) - 1)) ELSE s

\* String.prototype.trim
Trim(s) == TrimEnd(TrimStart(s))

\* the example-query buttons below the form
ExampleQueries ==
    { <<"i","P","h","o","n","e"," ","1","5">>,
      <<"M","a","c","B","o","o","k"," ","P","r","o">>,
      <<"N","i","k","e"," ","s","n","e","a","k","e","r","s">>,
      <<"S","a","m","s","u","n","g"," ","G","a","l","a","x","y">> }

\* the options of the limit select; the first is the default
DefaultLimit == 10
LimitOptions == {10, 50, 100}

\* what can be typed into the category input (revision 1), and the
\* category lists the backend may return (revision 2)
CategoryTexts == {"", "toys"}
BackendCategories == {{}, {"toys"}}

MsgSuccess == "parsing started"
ErrValidation == "enter a search query"
ErrGeneric == "failed to start parsing"
ErrBackend == "backend error text"

\* err.response?.data?.error || fallback
Outcomes == {"ok", "backend_error", "transport_error"}

----------------------------------------------------------------------------
(* SearchForm *)

FormValues(f) == [searchQuery |-> f.searchQuery, category |-> f.category, limit |-> f.limit]

SearchFormInit ==
    /\ sfRev \in {1, 2}
    /\ searchForm = [searchQuery |-> <<>>, category |-> "", limit |-> DefaultLimit,
                     categories |-> {}, loading |-> FALSE, message |-> "", error |-> ""]
    /\ sfPosts = <<>>
    /\ sfCatReq = (sfRev = 2)
    /\ sfLast = [event |-> "mount", form |-> FormValues(searchForm)]

\* a form whose controls stay enabled while a request is in flight
ControlsEnabled_always == TRUE

\* the inputs, the select and the submit button carry disabled={loading}
ControlsEnabled == ~searchForm.loading

\* the body of the POST
PostBody ==
    IF sfRev = 1
    THEN [search_query |-> Trim(searchForm.searchQuery),
          category |-> IF searchForm.category = "" THEN "null" ELSE searchForm.category,
          limit |-> searchForm.limit]
    ELSE [search_query |-> Trim(searchForm.searchQuery),
          category |-> IF searchForm.category = "" THEN "null" ELSE searchForm.category]

\* the validation without trim(): !searchQuery
QueryIsBlank_noTrim == searchForm.searchQuery = <<>>

\* !searchQuery.trim()
QueryIsBlank == Trim(searchForm.searchQuery) = <<>>

handleSubmit ==
    /\ ControlsEnabled
    /\ sfLast' = [event |-> "submit", form |-> FormValues(searchForm)]
    /\ IF QueryIsBlank
       THEN /\ searchForm' = [searchForm EXCEPT !.error = ErrValidation]
            /\ UNCHANGED sfPosts
       ELSE /\ searchForm' = [searchForm EXCEPT !.loading = TRUE, !.error = "", !.message = ""]
            /\ sfPosts' = Append(sfPosts, PostBody)
    /\ UNCHANGED <<sfRev, sfCatReq>>
    /\ UNCHANGED <<plVars, viewVars>>

RemoveAt(q, i) == [j \in 1..(Len(q) - 1) |-> IF j < i THEN q[j] ELSE q[j + 1]]

\* setLoading(false) at the end of the try block instead of in finally
PostResolved_noFinally(i, outcome) ==
    /\ i \in 1..Len(sfPosts)
    /\ sfPosts' = RemoveAt(sfPosts, i)
    /\ IF outcome = "ok"
       THEN /\ searchForm' = [searchForm EXCEPT
                                !.message = MsgSuccess,
                                !.searchQuery = <<>>,
                                !.category = "",
                                !.limit = IF sfRev = 1 THEN DefaultLimit ELSE @,
                                !.loading = FALSE]
            /\ sfLast' = [sfLast EXCEPT !.event = "success"]
       ELSE /\ searchForm' = [searchForm EXCEPT
                                !.error = IF outcome = "backend_error" THEN ErrBackend ELSE ErrGeneric]
            /\ sfLast' = [sfLast EXCEPT !.event = "failure"]
    /\ UNCHANGED <<sfRev, sfCatReq>>
    /\ UNCHANGED <<plVars, viewVars>>

\* the continuation of handleSubmit after the awaited POST settles
PostResolved(i, outcome) ==
    /\ i \in 1..Len(sfPosts)
    /\ sfPosts' = RemoveAt(sfPosts, i)
    /\ IF outcome = "ok"
       THEN /\ searchForm' = [searchForm EXCEPT
                                !.message = MsgSuccess,
                                !.searchQuery = <<>>,
                                !.category = "",
                                !.limit = IF sfRev = 1 THEN DefaultLimit ELSE @,
                                !.loading = FALSE]
            /\ sfLast' = [sfLast EXCEPT !.event = "success"]
       ELSE /\ searchForm' = [searchForm EXCEPT
                                !.error = IF outcome = "backend_error" THEN ErrBackend ELSE ErrGeneric,
                                !.loading = FALSE]
            /\ sfLast' = [sfLast EXCEPT !.event = "failure"]
    /\ UNCHANGED <<sfRev, sfCatReq>>
    /\ UNCHANGED <<plVars, viewVars>>

\* onChange of the query input
setSearchQuery(s) ==
    /\ ControlsEnabled
    /\ searchForm' = [searchForm EXCEPT !.searchQuery = s]
    /\ sfLast' = [sfLast EXCEPT !.event = "edit"]
    /\ UNCHANGED <<sfRev, sfPosts, sfCatReq>>
    /\ UNCHANGED <<plVars, viewVars>>

\* onClick of an example button: these buttons are not disabled while loading
exampleClick(s) ==
    /\ searchForm' = [searchForm EXCEPT !.searchQuery = s]
    /\ sfLast' = [sfLast EXCEPT !.event = "example"]
    /\ UNCHANGED <<sfRev, sfPosts, sfCatReq>>
    /\ UNCHANGED <<plVars, viewVars>>

\* onChange of the category input (revision 1) or select (revision 2)
setCategory(c) ==
    /\ ControlsEnabled
    /\ IF sfRev = 1 THEN c \in CategoryTexts ELSE c \in {""} \cup searchForm.categories
    /\ searchForm' = [searchForm EXCEPT !.category = c]
    /\ sfLast' = [sfLast EXCEPT !.event = "edit"]
    /\ UNCHANGED <<sfRev, sfPosts, sfCatReq>>
    /\ UNCHANGED <<plVars, viewVars>>

\* onChange of the limit select (revision 1 only)
setLimit(n) ==
    /\ ControlsEnabled
    /\ sfRev = 1
    /\ searchForm' = [searchForm EXCEPT !.limit = n]
    /\ sfLast' = [sfLast EXCEPT !.event = "edit"]
    /\ UNCHANGED <<sfRev, sfPosts, sfCatReq>>
    /\ UNCHANGED <<plVars, viewVars>>

\* revision 2: the GET of fetchCategories settles
fetchCategories(ok, cats) ==
    /\ sfCatReq
    /\ sfCatReq' = FALSE
    /\ searchForm' = IF ok THEN [searchForm EXCEPT !.categories = cats] ELSE searchForm
    /\ UNCHANGED <<sfRev, sfPosts, sfLast>>
    /\ UNCHANGED <<plVars, viewVars>>

SearchFormStep ==
    \/ handleSubmit
    \/ \E i \in 1..Len(sfPosts), o \in Outcomes : PostResolved(i, o)
    \/ \E s \in TypedStrings : setSearchQuery(s)
    \/ \E s \in ExampleQueries : exampleClick(s)
    \/ \E c \in CategoryTexts : setCategory(c)
    \/ \E n \in LimitOptions : setLimit(n)
    \/ \E ok \in BOOLEAN, cats \in BackendCategories : fetchCategories(ok, cats)

----------------------------------------------------------------------------
(* ProductList: the values of the model *)

\* '' in a field that otherwise holds a number
Blank == -1

\* filters has no page key until the page effect sets one
NoPage == 0


\* the initial upper price bound and the upper rating bound
InitialMaxPrice == 100000
MaxRating == 5
ListLimit == 10

\* the slider positions and backend price bounds the model samples
MaxPrice == 1
MaxRatingPos == 1
MaxPage == 3

\* a hasty user acts while up to this many fetches are outstanding
MaxOutstanding == 1

PricePoints == (0..MaxPrice) \cup {InitialMaxPrice}
RatingPoints == (0..MaxRatingPos) \cup {MaxRating}

\* what can be typed into the search input, the categories of the backend
SearchTexts == {"", "tv"}
AllCategories == {"toys"}

DefaultSort == "-created_at"
SortKeys == {"price", "-price", "rating", "-rating",
             "reviews_count", "-reviews_count", "name", "-name"}

\* the sort buttons the model clicks
ClickedSorts == {"price", "-rating"}

\* JavaScript truthiness: of a number or '' (0 and '' are falsy), of a text
Truthy(v) == v # Blank /\ v # 0
TruthyText(t) == t # ""

----------------------------------------------------------------------------
(* The backend, seen from the client: what a response to a request with    *)
(* parameters q carries.  The list is empty for a search within a category *)
(* (no product matches both); the count depends on the filters only.       *)

NoMatch(q) == q.search # "" /\ q.category # ""

PageOf(q) == IF q.page = NoPage THEN 1 ELSE q.page

BackendCount(q) == IF NoMatch(q) THEN 0 ELSE MaxPage * ListLimit

\* the products of the response: each carries the query it answers
BackendResults(q) == IF NoMatch(q) \/ PageOf(q) > MaxPage THEN <<>> ELSE <<q>>

\* next / previous: the page number inside the URL, 0 for null
BackendNext(q) == IF ~NoMatch(q) /\ PageOf(q) < MaxPage THEN PageOf(q) + 1 ELSE 0
BackendPrevious(q) == IF PageOf(q) > 1 THEN PageOf(q) - 1 ELSE 0

\* price_range of a response: absent, or the bounds of the catalog
NoRange == [min |-> Blank, max |-> Blank]
BackendRanges == {NoRange, [min |-> 0, max |-> MaxPrice]}

ListResponse(q, range) ==
    [results |-> BackendResults(q),
     count |-> BackendCount(q),
     next |-> BackendNext(q),
     previous |-> BackendPrevious(q),
     categories |-> AllCategories,
     price_range |-> range]

----------------------------------------------------------------------------
(* ProductList, revision 2 (sliders, live apply, no timer) *)

InitialFormState_v2 ==
    [search |-> "", category |-> "", min_price |-> 0, max_price |-> InitialMaxPrice,
     min_rating |-> 0, max_rating |-> MaxRating, min_reviews |-> Blank,
     max_reviews |-> Blank, sort |-> DefaultSort, limit |-> ListLimit]

InitialFilters_v2 ==
    [search |-> "", category |-> "", min_price |-> 0, max_price |-> InitialMaxPrice,
     min_rating |-> 0, max_rating |-> MaxRating, min_reviews |-> Blank,
     max_reviews |-> Blank, sort |-> DefaultSort, limit |-> ListLimit, page |-> NoPage]

InitialState_v2 ==
    [products |-> <<>>, loading |-> TRUE, error |-> "",
     formState |-> InitialFormState_v2,
     filters |-> InitialFilters_v2,
     categories |-> {},
     pagination |-> [count |-> 0, next |-> 0, previous |-> 0],
     priceRange |-> [min |-> 0, max |-> InitialMaxPrice],
     globalPriceRange |-> [min |-> 0, max |-> InitialMaxPrice],
     chartsData |-> "initial",
     searchInput |-> "",
     prevPriceRange |-> [min |-> 0, max |-> InitialMaxPrice]]

\* the early returns of the render: the loading screen and the error screen
\* replace the whole view, controls included
ControlsRendered ==
    /\ ~(productList.loading /\ productList.products = <<>>)
    /\ productList.error = ""

\* an event is handled once the effects of the last commit have run
UserCanAct == plEffects = {} /\ ControlsRendered /\ Len(plFetches) <= plPace

\* the dependency list of the live-apply effect
ApplyDeps(f) ==
    <<f.category, f.min_price, f.max_price, f.min_rating, f.max_rating,
      f.min_reviews, f.max_reviews, f.sort>>

\* the effects a commit schedules: those whose dependencies changed
EffectsAfter_v2(old, new, filtersSet, locationChanged) ==
    (IF filtersSet THEN {"fetch"} ELSE {})
    \cup (IF old.globalPriceRange # new.globalPriceRange THEN {"sync"} ELSE {})
    \cup (IF locationChanged THEN {"page"} ELSE {})
    \cup (IF ApplyDeps(old.formState) # ApplyDeps(new.formState) THEN {"apply"} ELSE {})

----------------------------------------------------------------------------
(* History of the list view: the last event, the list requests issued      *)
(* since the last user event, and the changes of the applied state that    *)
(* came within the debounce delay of one another (a burst).                *)

NoMove == [control |-> "none", v |-> 0, min |-> 0, max |-> 0]

InitialHistory ==
    [event |-> "mount", issued |-> 0, burst |-> 0, burstIssued |-> 0, settledOk |-> TRUE,
     moved |-> NoMove, completed |-> <<>>, trip |-> <<>>]

\* the page shown, and the applied filters without the page
CurrentPage == IF plRev = 1 THEN productList.page ELSE PageOf(productList.filters)

FiltersSansPage == [k \in DOMAIN productList.filters \ {"page"} |-> productList.filters[k]]

\* no list request is pending: the list shown is that of the applied state
ListSettled ==
    /\ plTimer = <<>>
    /\ \A i \in 1..Len(plFetches) : ~plFetches[i].list

\* the list on screen is the answer to the applied state
ListShown ==
    /\ ListSettled
    /\ plLast.completed =
           <<IF plRev = 1
             THEN [k \in DOMAIN productList.filters \cup {"page"} |->
                      IF k = "page" THEN productList.page ELSE productList.filters[k]]
             ELSE productList.filters>>

\* a forward click on a loaded page starts a round trip, from the page, the
\* filters and the count of that moment; a backward click on the page it
\* leads to, once loaded, completes the trip; any other event ends it
TripAfter(trip, e) ==
    IF e = "next" /\ ListShown
    THEN <<[page |-> CurrentPage, filters |-> FiltersSansPage,
            count |-> productList.pagination.count, back |-> FALSE]>>
    ELSE IF e = "previous" /\ ListShown /\ trip # <<>> /\ ~trip[1].back
         THEN <<[trip[1] EXCEPT !.back = TRUE]>>
         ELSE <<>>

Min(a, b) == IF a < b THEN a ELSE b

\* the user events the history tells apart
NotedEvents == {"typeSearch", "clearFilters"}

\* a user event named e starts a new count of issued requests
OnEvent(h, e) ==
    [h EXCEPT !.event = IF e \in NotedEvents THEN e ELSE "other", !.issued = 0,
              !.moved = NoMove, !.trip = TripAfter(@, e)]

\* a slider moved to v while the draft bounds were min and max
OnMove(h, control, v, min, max) ==
    [OnEvent(h, control) EXCEPT !.moved = [control |-> control, v |-> v, min |-> min, max |-> max]]

\* a list response arrived: q is the query it answers
OnResponse(h, ok, q) ==
    [h EXCEPT !.event = "response", !.moved = NoMove,
              !.completed = IF ok THEN <<q>> ELSE @]

\* a commit that changed the applied state (filters or page) by value
OnChange(h, changed) == IF changed THEN [h EXCEPT !.burst = Min(2, @ + 1)] ELSE h

\* n fetches issued; they fall into the burst if the delay of its last change is running
OnIssue(h, n) ==
    [h EXCEPT !.issued = Min(3, @ + n),
              !.burstIssued = IF h.burst > 0 THEN Min(2, @ + n) ELSE @]

\* the debounce delay has elapsed since the last change: the burst is over.
\* A burst of several changes is settled well by one request, for the last state.
OnSettle(h, n, last) ==
    [h EXCEPT !.burst = 0, !.burstIssued = 0,
              !.settledOk = @ /\ (h.burst >= 2 => (h.burstIssued + n = 1 /\ last))]

----------------------------------------------------------------------------
(* Revision 2: the event handlers.  Each is one commit.                    *)

\* a commit of revision 2: the new state, the effects it schedules, the history
Commit_v2(new, filtersSet, h) ==
    /\ productList' = new
    /\ plEffects' = EffectsAfter_v2(productList, new, filtersSet, FALSE)
    /\ plLast' = OnChange(h, new.filters # productList.filters)
    /\ UNCHANGED <<plRev, plTimer, plFetches, plLocation>>
    /\ UNCHANGED <<sfVars, plPace, viewVars>>

\* a search input that applies live, as the other fields do
setSearchInput_live(text) ==
    /\ plRev = 2 /\ UserCanAct
    /\ Commit_v2([productList EXCEPT !.searchInput = text, !.filters.search = text], TRUE,
                 OnEvent(plLast, "typeSearch"))

\* onChange of the search input
setSearchInput(text) ==
    /\ plRev = 2 /\ UserCanAct
    /\ Commit_v2([productList EXCEPT !.searchInput = text], FALSE,
                 OnEvent(plLast, "typeSearch"))

\* the apply button, and Enter in the search input (handleSearchKeyDown)
applySearch ==
    /\ plRev = 2 /\ UserCanAct
    /\ Commit_v2([productList EXCEPT !.filters.search = productList.searchInput],
                 TRUE, OnEvent(plLast, "applySearch"))

\* onChange of the category select
handleFormChange(value) ==
    /\ plRev = 2 /\ UserCanAct
    /\ value \in {""} \cup productList.categories
    /\ Commit_v2([productList EXCEPT !.formState.category = value], FALSE,
                 OnEvent(plLast, "category"))

handleSortChange_v2(sort) ==
    /\ plRev = 2 /\ UserCanAct
    /\ Commit_v2([productList EXCEPT !.filters.sort = sort], TRUE, OnEvent(plLast, "sort"))

\* v || d
OrElse(v, d) == IF Truthy(v) THEN v ELSE d

\* a min price slider that stores the value as it comes
minPriceChange_noClamp(v) ==
    /\ plRev = 2 /\ UserCanAct
    /\ v >= productList.globalPriceRange.min
    /\ v <= OrElse(productList.formState.max_price, productList.globalPriceRange.max)
    /\ LET prev == productList.formState
       IN  Commit_v2([productList EXCEPT !.formState.min_price = v],
                     FALSE, OnMove(plLast, "minPrice", v, prev.min_price, prev.max_price))

\* the min price slider: min and max attributes, then onChange
minPriceChange(v) ==
    /\ plRev = 2 /\ UserCanAct
    /\ v >= productList.globalPriceRange.min
    /\ v <= OrElse(productList.formState.max_price, productList.globalPriceRange.max)
    /\ LET prev == productList.formState
       IN  Commit_v2([productList EXCEPT !.formState.min_price =
                         IF v > prev.max_price THEN prev.max_price ELSE v],
                     FALSE, OnMove(plLast, "minPrice", v, prev.min_price, prev.max_price))

maxPriceChange(v) ==
    /\ plRev = 2 /\ UserCanAct
    /\ v >= OrElse(productList.formState.min_price, productList.globalPriceRange.min)
    /\ v <= productList.globalPriceRange.max
    /\ LET prev == productList.formState
       IN  Commit_v2([productList EXCEPT !.formState.max_price =
                         IF v < prev.min_price THEN prev.min_price ELSE v],
                     FALSE, OnMove(plLast, "maxPrice", v, prev.min_price, prev.max_price))

\* a min rating slider that pushes the max bound up instead of stopping at it
minRatingChange_pushMax(v) ==
    /\ plRev = 2 /\ UserCanAct
    /\ v >= 0
    /\ v <= OrElse(productList.formState.max_rating, MaxRating)
    /\ LET prev == productList.formState
       IN  Commit_v2([productList EXCEPT !.formState.min_rating = v,
                                         !.formState.max_rating =
                                             IF v > prev.max_rating THEN v ELSE @],
                     FALSE, OnMove(plLast, "minRating", v, prev.min_rating, prev.max_rating))

minRatingChange(v) ==
    /\ plRev = 2 /\ UserCanAct
    /\ v >= 0
    /\ v <= OrElse(productList.formState.max_rating, MaxRating)
    /\ LET prev == productList.formState
       IN  Commit_v2([productList EXCEPT !.formState.min_rating =
                         IF v > prev.max_rating THEN prev.max_rating ELSE v],
                     FALSE, OnMove(plLast, "minRating", v, prev.min_rating, prev.max_rating))

maxRatingChange(v) ==
    /\ plRev = 2 /\ UserCanAct
    /\ v >= OrElse(productList.formState.min_rating, 0)
    /\ v <= MaxRating
    /\ LET prev == productList.formState
       IN  Commit_v2([productList EXCEPT !.formState.max_rating =
                         IF v < prev.min_rating THEN prev.min_rating ELSE v],
                     FALSE, OnMove(plLast, "maxRating", v, prev.min_rating, prev.max_rating))

\* the values clearFilters writes into both records
Defaults_v2(gpr) ==
    [search |-> "", category |-> "", min_price |-> gpr.min, max_price |-> gpr.max,
     min_rating |-> 0, max_rating |-> MaxRating, min_reviews |-> Blank,
     max_reviews |-> Blank, sort |-> DefaultSort, limit |-> ListLimit]

\* r with the fields of d overwritten: { ...r, ...d }
Spread(r, d) == [k \in DOMAIN r |-> IF k \in DOMAIN d THEN d[k] ELSE r[k]]

\* a clearFilters that resets the draft and leaves the rest to the live-apply effect
clearFilters_v2_draftOnly ==
    /\ plRev = 2 /\ UserCanAct
    /\ LET d == Defaults_v2(productList.globalPriceRange)
       IN  Commit_v2([productList EXCEPT !.formState = Spread(@, d),
                                         !.searchInput = ""],
                     FALSE, OnEvent(plLast, "clearFilters"))

clearFilters_v2 ==
    /\ plRev = 2 /\ UserCanAct
    /\ LET d == Defaults_v2(productList.globalPriceRange)
       IN  Commit_v2([productList EXCEPT !.formState = Spread(@, d),
                                         !.filters = Spread(@, d),
                                         !.searchInput = ""],
                     TRUE, OnEvent(plLast, "clearFilters"))

\* the pagination buttons: navigate to the page inside pagination.next / previous
navigate(forward) ==
    /\ plRev = 2 /\ UserCanAct
    /\ LET target == IF forward THEN productList.pagination.next
                     ELSE productList.pagination.previous
       IN  /\ target # 0
           /\ plLocation' = target
           /\ plEffects' = IF target # plLocation THEN {"page"} ELSE {}
    /\ plLast' = OnEvent(plLast, IF forward THEN "next" ELSE "previous")
    /\ UNCHANGED <<plRev, productList, plTimer, plFetches>>
    /\ UNCHANGED <<sfVars, plPace, viewVars>>

----------------------------------------------------------------------------
(* Revision 2: the effects of a commit, run together in the order of their *)
(* declaration, each with the state of the render that scheduled it; the   *)
(* updates they queue are applied in that order and make the next commit.  *)

\* the closure fetchProducts and fetchChartsData run with
Fetch(filters, page) == [filters |-> filters, page |-> page, list |-> TRUE, charts |-> TRUE]

\* the globalPriceRange sync effect
SyncEffect(S, s) ==
    IF S.prevPriceRange # S.globalPriceRange
    THEN [s EXCEPT !.formState.min_price = S.globalPriceRange.min,
                   !.formState.max_price = S.globalPriceRange.max,
                   !.filters.min_price = S.globalPriceRange.min,
                   !.filters.max_price = S.globalPriceRange.max,
                   !.prevPriceRange = S.globalPriceRange]
    ELSE s

\* the page query-parameter effect
PageEffect(s) ==
    IF plLocation # NoPage THEN [s EXCEPT !.filters.page = plLocation] ELSE s

\* the live-apply effect: the draft fields, search excepted, go into filters
ApplyEffect(S, s) ==
    [s EXCEPT !.filters.category = S.formState.category,
              !.filters.min_price = S.formState.min_price,
              !.filters.max_price = S.formState.max_price,
              !.filters.min_rating = S.formState.min_rating,
              !.filters.max_rating = S.formState.max_rating,
              !.filters.min_reviews = S.formState.min_reviews,
              !.filters.max_reviews = S.formState.max_reviews,
              !.filters.sort = S.formState.sort]

flushEffects_v2 ==
    /\ plRev = 2 /\ plEffects # {}
    /\ LET S == productList
           E == plEffects
           s1 == IF "fetch" \in E THEN [S EXCEPT !.loading = TRUE] ELSE S
           s2 == IF "sync" \in E THEN SyncEffect(S, s1) ELSE s1
           s3 == IF "page" \in E THEN PageEffect(s2) ELSE s2
           s4 == IF "apply" \in E THEN ApplyEffect(S, s3) ELSE s3
           filtersSet == \/ "sync" \in E /\ S.prevPriceRange # S.globalPriceRange
                         \/ "page" \in E /\ plLocation # NoPage
                         \/ "apply" \in E
           n == IF "fetch" \in E THEN 1 ELSE 0
       IN  /\ productList' = s4
           /\ plFetches' = IF "fetch" \in E
                           THEN Append(plFetches, Fetch(S.filters, NoPage))
                           ELSE plFetches
           /\ plEffects' = EffectsAfter_v2(S, s4, filtersSet, FALSE)
           /\ plLast' = OnChange(OnIssue(plLast, n), s4.filters # S.filters)
    /\ UNCHANGED <<plRev, plTimer, plLocation>>
    /\ UNCHANGED <<sfVars, plPace, viewVars>>

\* a condition that looks at the price bounds only
NoActiveFilter_priceOnly(f) ==
    ~Truthy(f.min_price) /\ ~Truthy(f.max_price)

\* the condition under which a response updates globalPriceRange
NoActiveFilter(f) ==
    /\ ~Truthy(f.min_price) /\ ~Truthy(f.max_price)
    /\ ~TruthyText(f.category) /\ ~TruthyText(f.search)
    /\ ~Truthy(f.min_rating) /\ ~Truthy(f.max_rating)
    /\ ~Truthy(f.min_reviews) /\ ~Truthy(f.max_reviews)

\* the fetch i with its list (or chart) request settled; dropped once both are
Settle(i, what) ==
    LET r == plFetches[i]
        t == IF what = "list" THEN [r EXCEPT !.list = FALSE] ELSE [r EXCEPT !.charts = FALSE]
    IN  IF t.list \/ t.charts THEN [plFetches EXCEPT ![i] = t] ELSE RemoveAt(plFetches, i)

\* a continuation that drops the response of a request the filters have left behind
listResponse_v2_dropStale(i, ok, range) ==
    /\ plRev = 2 /\ plEffects = {}
    /\ i \in 1..Len(plFetches) /\ plFetches[i].list
    /\ LET filters == plFetches[i].filters
           data == ListResponse(filters, range)
           s1 == [productList EXCEPT
                    !.products = data.results,
                    !.pagination = [count |-> data.count, next |-> data.next,
                                    previous |-> data.previous],
                    !.categories = data.categories]
           new == IF filters # productList.filters THEN productList
                  ELSE IF ok THEN [s1 EXCEPT !.loading = FALSE]
                  ELSE [productList EXCEPT !.error = "load failed", !.loading = FALSE]
       IN  /\ productList' = new
           /\ plEffects' = EffectsAfter_v2(productList, new, FALSE, FALSE)
           /\ plLast' = OnResponse(plLast, ok, filters)
    /\ plFetches' = Settle(i, "list")
    /\ UNCHANGED <<plRev, plTimer, plLocation>>
    /\ UNCHANGED <<sfVars, plPace, viewVars>>

\* the continuation of fetchProducts after the awaited GET /api/products/
listResponse_v2(i, ok, range) ==
    /\ plRev = 2 /\ plEffects = {}
    /\ i \in 1..Len(plFetches) /\ plFetches[i].list
    /\ LET filters == plFetches[i].filters
           data == ListResponse(filters, range)
           s1 == [productList EXCEPT
                    !.products = data.results,
                    !.pagination = [count |-> data.count, next |-> data.next,
                                    previous |-> data.previous],
                    !.categories = data.categories]
           s2 == IF data.price_range # NoRange
                 THEN [s1 EXCEPT !.priceRange = data.price_range,
                                 !.globalPriceRange =
                                     IF NoActiveFilter(filters) THEN data.price_range ELSE @]
                 ELSE s1
           new == IF ok THEN [s2 EXCEPT !.loading = FALSE]
                  ELSE [productList EXCEPT !.error = "load failed", !.loading = FALSE]
       IN  /\ productList' = new
           /\ plEffects' = EffectsAfter_v2(productList, new, FALSE, FALSE)
           /\ plLast' = OnResponse(plLast, ok, filters)
    /\ plFetches' = Settle(i, "list")
    /\ UNCHANGED <<plRev, plTimer, plLocation>>
    /\ UNCHANGED <<sfVars, plPace, viewVars>>

\* the continuation of fetchChartsData after Promise.all of the two chart GETs
chartsResponse(i, ok) ==
    /\ plEffects = {}
    /\ i \in 1..Len(plFetches) /\ plFetches[i].charts
    /\ productList' = IF ok THEN [productList EXCEPT !.chartsData = "loaded"] ELSE productList
    /\ plFetches' = Settle(i, "charts")
    /\ UNCHANGED <<plRev, plEffects, plTimer, plLocation, plLast>>
    /\ UNCHANGED <<sfVars, plPace, viewVars>>

\* the debounce delay passes without a further change; revision 2 has no timer
delayElapsed_v2 ==
    /\ plRev = 2 /\ plEffects = {}
    /\ plLast.burst > 0
    /\ plLast' = OnSettle(plLast, 0, TRUE)
    /\ UNCHANGED <<plRev, productList, plEffects, plTimer, plFetches, plLocation>>
    /\ UNCHANGED <<sfVars, plPace, viewVars>>

----------------------------------------------------------------------------
(* ProductList, revision 1 (ProductList.js: apply button, page state,      *)
(* debounced fetch).  Its number inputs hold text: '' or digits.           *)

InitialFormState_v1 ==
    [search |-> "", category |-> "", min_price |-> Blank, max_price |-> Blank,
     min_rating |-> Blank, min_reviews |-> Blank]

InitialFilters_v1 ==
    [search |-> "", category |-> "", min_price |-> Blank, max_price |-> Blank,
     min_rating |-> Blank, min_reviews |-> Blank, sort |-> DefaultSort]

InitialState_v1 ==
    [filters |-> InitialFilters_v1,
     formState |-> InitialFormState_v1,
     products |-> <<>>, loading |-> TRUE, error |-> "",
     categories |-> {},
     pagination |-> [count |-> 0, next |-> 0, previous |-> 0],
     priceRange |-> [min |-> 0, max |-> InitialMaxPrice],
     chartsData |-> "initial",
     page |-> 1]

\* the form fields the model edits, and the values it types into them
EditedKeys == {"search", "category", "min_price"}

ValuesOf(key) ==
    IF key = "search" THEN SearchTexts
    ELSE IF key = "category" THEN {""} \cup productList.categories
    ELSE {Blank} \cup (0..MaxPrice)

\* a commit of revision 1: the fetch effect depends on [filters, page]
Commit_v1(new, filtersSet, e) ==
    /\ productList' = new
    /\ plEffects' = IF filtersSet \/ new.page # productList.page THEN {"fetch"} ELSE {}
    /\ plLast' = OnChange(OnEvent(plLast, e),
                          new.filters # productList.filters \/ new.page # productList.page)
    /\ UNCHANGED <<plRev, plTimer, plFetches, plLocation>>
    /\ UNCHANGED <<sfVars, plPace, viewVars>>

handleChange(key, value) ==
    /\ plRev = 1 /\ UserCanAct
    /\ value \in ValuesOf(key)
    /\ Commit_v1([productList EXCEPT !.formState[key] = value], FALSE,
                 IF key = "search" THEN "typeSearch" ELSE "edit")

\* the apply button, and Enter in an input (handleKeyDown)
applyFilters ==
    /\ plRev = 1 /\ UserCanAct
    /\ Commit_v1([productList EXCEPT
                    !.filters = [k \in DOMAIN productList.formState \cup {"sort"} |->
                                    IF k = "sort" THEN productList.filters.sort
                                    ELSE productList.formState[k]]],
                 TRUE, "applyFilters")

handleSortChange_v1(sort) ==
    /\ plRev = 1 /\ UserCanAct
    /\ Commit_v1([productList EXCEPT !.filters.sort = sort], TRUE, "sort")

clearFilters_v1 ==
    /\ plRev = 1 /\ UserCanAct
    /\ Commit_v1([productList EXCEPT !.filters = InitialFilters_v1,
                                     !.formState = InitialFormState_v1],
                 TRUE, "clearFilters")

\* a back button that returns to the first page
setPage_backToFirst(forward) ==
    /\ plRev = 1 /\ UserCanAct
    /\ IF forward THEN productList.pagination.next # 0 ELSE productList.page # 1
    /\ Commit_v1([productList EXCEPT !.page = IF forward THEN @ + 1 ELSE 1],
                 FALSE, IF forward THEN "next" ELSE "previous")

\* the pagination buttons: back is disabled on page 1, forward without a next page
setPage(forward) ==
    /\ plRev = 1 /\ UserCanAct
    /\ IF forward THEN productList.pagination.next # 0 ELSE productList.page # 1
    /\ Commit_v1([productList EXCEPT !.page =
                     IF forward THEN @ + 1 ELSE (IF @ > 1 THEN @ - 1 ELSE 1)],
                 FALSE, IF forward THEN "next" ELSE "previous")

\* the fetch effect: the list is emptied, the pending timer is cleared (the
\* cleanup of the previous run) and a new one is set
flushEffects_v1 ==
    /\ plRev = 1 /\ plEffects # {}
    /\ productList' = [productList EXCEPT !.products = <<>>, !.loading = TRUE]
    /\ plTimer' = <<Fetch(productList.filters, productList.page)>>
    /\ plEffects' = {}
    /\ UNCHANGED <<plRev, plFetches, plLocation, plLast>>
    /\ UNCHANGED <<sfVars, plPace, viewVars>>

\* the timer fires after the debounce delay: fetchProducts and fetchChartsData
timerFired ==
    /\ plRev = 1 /\ plEffects = {}
    /\ plTimer # <<>>
    /\ plFetches' = Append(plFetches, plTimer[1])
    /\ plTimer' = <<>>
    /\ plLast' = OnSettle([plLast EXCEPT !.issued = Min(3, @ + 1)], 1,
                          /\ plTimer[1].filters = productList.filters
                          /\ plTimer[1].page = productList.page)
    /\ UNCHANGED <<plRev, productList, plEffects, plLocation>>
    /\ UNCHANGED <<sfVars, plPace, viewVars>>

\* the query of the list request of revision 1: the truthy fields, and page
ListQuery_v1(f) ==
    [k \in DOMAIN f.filters \cup {"page"} |->
        IF k = "page" THEN f.page ELSE f.filters[k]]

\* the continuation of fetchProducts after the awaited GET /api/products/
listResponse_v1(i, ok, range) ==
    /\ plRev = 1 /\ plEffects = {}
    /\ i \in 1..Len(plFetches) /\ plFetches[i].list
    /\ LET data == ListResponse(ListQuery_v1(plFetches[i]), range)
           s1 == [productList EXCEPT
                    !.products = data.results,
                    !.pagination = [count |-> data.count, next |-> data.next,
                                    previous |-> data.previous],
                    !.categories = data.categories,
                    !.priceRange = IF data.price_range # NoRange THEN data.price_range ELSE @]
       IN  /\ productList' = IF ok THEN [s1 EXCEPT !.loading = FALSE]
                             ELSE [productList EXCEPT !.error = "load failed", !.loading = FALSE]
           /\ plLast' = OnResponse(plLast, ok, ListQuery_v1(plFetches[i]))
    /\ plFetches' = Settle(i, "list")
    /\ UNCHANGED <<plRev, plEffects, plTimer, plLocation>>
    /\ UNCHANGED <<sfVars, plPace, viewVars>>

----------------------------------------------------------------------------
(* The parameters of the requests a fetch sends.  Parameters are functions *)
(* from the keys sent to their values.                                     *)

TextKeys == {"search", "category", "sort"}

\* filters[key] of revision 1, whose inputs hold text: only '' is falsy
TruthyAt_v1(k, v) == IF k \in TextKeys THEN TruthyText(v) ELSE v # Blank

\* filters[key] !== ''
NotEmptyAt(k, v) == IF k \in TextKeys THEN v # "" ELSE v # Blank

\* revision 1, fetchProducts: the truthy filters, then page
ListParams_v1(r) ==
    [k \in {j \in DOMAIN r.filters : TruthyAt_v1(j, r.filters[j])} \cup {"page"} |->
        IF k = "page" THEN r.page ELSE r.filters[k]]

\* revision 1, fetchChartsData: the truthy filters, sort excepted
ChartParams_v1(r) ==
    [k \in {j \in DOMAIN r.filters : TruthyAt_v1(j, r.filters[j]) /\ j # "sort"} |->
        r.filters[k]]

\* revision 2, fetchProducts: { params: filters }, every key filters has
ListParams_v2(r) ==
    [k \in DOMAIN r.filters \ (IF r.filters.page = NoPage THEN {"page"} ELSE {}) |->
        r.filters[k]]

\* a fetchChartsData that leaves out sort and page only
ChartParams_v2_keepsLimit(r) ==
    [k \in {j \in DOMAIN r.filters \ {"sort", "page"} : NotEmptyAt(j, r.filters[j])} |->
        r.filters[k]]

\* revision 2, fetchChartsData: the non-empty filters, sort, page and limit excepted
ChartParams_v2(r) ==
    [k \in {j \in DOMAIN r.filters \ {"sort", "page", "limit"} :
                NotEmptyAt(j, r.filters[j])} |->
        r.filters[k]]

ListParamsOf(r) == IF plRev = 1 THEN ListParams_v1(r) ELSE ListParams_v2(r)

ChartParamsOf(r) == IF plRev = 1 THEN ChartParams_v1(r) ELSE ChartParams_v2(r)

----------------------------------------------------------------------------
(* ProductImages (ProductImage.js): the gallery that probes every image    *)
(* of the product before it shows any.  A step is what runs between two    *)
(* awaits of loadImages.                                                   *)

MaxImages == 2

ImageUrls == {"a.jpg", "b.jpg"}

Placeholder == "/placeholder.jpg"

ImageLists == UNION {[1..n -> ImageUrls] : n \in 0..MaxImages}

\* the product prop, as far as the gallery reads it; "" is a missing image_url
ImageProducts == [image_url : ImageUrls \cup {""}, images : ImageLists]

NoImagesProduct == [image_url |-> "", images |-> <<>>]

\* const images: the primary image first, then the additional ones
Candidates(product) ==
    (IF product.image_url # "" THEN <<product.image_url>> ELSE <<>>) \o product.images

ProductImagesInit ==
    /\ piProduct \in ImageProducts
    /\ productImages = [mainImage |-> "", allImages |-> <<>>, loading |-> TRUE]
    /\ piLoad = [started |-> FALSE, images |-> <<>>, results |-> <<>>,
                 inFlight |-> {}, availableImages |-> <<>>]

FinishLoad_noFallback(availableImages) ==
    [mainImage |-> IF availableImages # <<>> THEN availableImages[1] ELSE "",
     allImages |-> availableImages,
     loading   |-> FALSE]

\* setAllImages, setMainImage(availableImages[0] || placeholder), setLoading(false)
FinishLoad(availableImages) ==
    [mainImage |-> IF availableImages # <<>> THEN availableImages[1] ELSE Placeholder,
     allImages |-> availableImages,
     loading   |-> FALSE]

loadImages_allAtOnce ==
    /\ ~piLoad.started
    /\ LET images == Candidates(piProduct)
       IN  /\ piLoad' = [started |-> TRUE, images |-> images, results |-> <<>>,
                         inFlight |-> 1..Len(images),
                         availableImages |-> <<>>]
           /\ productImages' = IF images = <<>> THEN FinishLoad(<<>>) ELSE productImages
    /\ UNCHANGED <<piProduct, sfVars, plVars, pdVars, pgVars>>

\* the effect of the mount: loadImages up to its first await, that is up to
\* the probe of the first candidate; with no candidate it runs to its end
loadImages ==
    /\ ~piLoad.started
    /\ LET images == Candidates(piProduct)
       IN  /\ piLoad' = [started |-> TRUE, images |-> images, results |-> <<>>,
                         inFlight |-> IF images = <<>> THEN {} ELSE {1},
                         availableImages |-> <<>>]
           /\ productImages' = IF images = <<>> THEN FinishLoad(<<>>) ELSE productImages
    /\ UNCHANGED <<piProduct, sfVars, plVars, pdVars, pgVars>>

probeResolved_keepAll(ok) ==
    /\ piLoad.started
    /\ LET i == Len(piLoad.results) + 1
           availableImages == Append(piLoad.availableImages, piLoad.images[i])
           last == i = Len(piLoad.images)
       IN  /\ i \in piLoad.inFlight
           /\ piLoad' = [piLoad EXCEPT
                  !.results = Append(@, ok),
                  !.availableImages = availableImages,
                  !.inFlight = (@ \ {i}) \cup (IF last THEN {} ELSE {i + 1})]
           /\ productImages' = IF last THEN FinishLoad(availableImages) ELSE productImages
    /\ UNCHANGED <<piProduct, sfVars, plVars, pdVars, pgVars>>

\* onload (ok) or onerror of the probe awaited: checkImageExists resolves,
\* the loop pushes the url if it loaded and goes on to the next candidate,
\* or past the loop to the end of loadImages
probeResolved(ok) ==
    /\ piLoad.started
    /\ LET i == Len(piLoad.results) + 1
           availableImages == IF ok THEN Append(piLoad.availableImages, piLoad.images[i])
                                    ELSE piLoad.availableImages
           last == i = Len(piLoad.images)
       IN  /\ i \in piLoad.inFlight
           /\ piLoad' = [piLoad EXCEPT
                  !.results = Append(@, ok),
                  !.availableImages = availableImages,
                  !.inFlight = (@ \ {i}) \cup (IF last THEN {} ELSE {i + 1})]
           /\ productImages' = IF last THEN FinishLoad(availableImages) ELSE productImages
    /\ UNCHANGED <<piProduct, sfVars, plVars, pdVars, pgVars>>

\* the strip of thumbnails is rendered
ThumbnailsRendered == ~productImages.loading /\ Len(productImages.allImages) > 1

\* a click on the thumbnail at index
setMainImage(index) ==
    /\ ThumbnailsRendered
    /\ index \in 1..Len(productImages.allImages)
    /\ productImages' = [productImages EXCEPT !.mainImage = productImages.allImages[index]]
    /\ UNCHANGED <<piProduct, piLoad, sfVars, plVars, pdVars, pgVars>>

----------------------------------------------------------------------------
(* ProductDetail (ProductDetail.js, lines 1-213): the page of one product. *)
(* The id of the route is not kept: a change of id is the event that       *)
(* schedules the fetch effect again, and the backend answers with any      *)
(* product.                                                                *)

\* 'Товар не найден', the message of the catch block of fetchProduct
ErrNotFound == "product not found"

CardPrices == {3, 8}

\* Blank is a discount_price of null
CardDiscounts == {Blank, 0, 1, 2, 3, 7}

DetailProducts ==
    [price : CardPrices, discount_price : CardDiscounts,
     image_url : {"", "a.jpg"}, images : ImageLists]

\* how a GET /api/products/:id/ can end
DetailOutcomes == {"ok", "not_found", "server_error", "network_error"}

\* similar_products of a response: none, or one product to go to
SimilarLists == {<<>>, <<"similar">>}

ProductDetailInit ==
    /\ productDetail = [product |-> <<>>, similarProducts |-> <<>>, loading |-> TRUE,
                        error |-> "", selectedImage |-> ""]
    /\ pdEffects = {"fetch"}
    /\ pdRequests = 0
    /\ pdLast = [outcome |-> "none"]

\* useEffect on [id]: fetchProduct up to its await
fetchProduct ==
    /\ "fetch" \in pdEffects
    /\ pdEffects' = {}
    /\ productDetail' = [productDetail EXCEPT !.loading = TRUE]
    /\ pdRequests' = pdRequests + 1
    /\ UNCHANGED <<pdLast, sfVars, plVars, piVars, pgVars>>

\* the rest of fetchProduct: the response, or the catch block, then finally
productResponse(outcome, product, similar) ==
    /\ pdRequests > 0
    /\ pdRequests' = pdRequests - 1
    /\ productDetail' =
           IF outcome = "ok"
           THEN [productDetail EXCEPT
                    !.product = <<product>>,
                    !.similarProducts = similar,
                    !.selectedImage = IF product.images # <<>> THEN product.images[1]
                                      ELSE IF product.image_url # "" THEN product.image_url
                                      ELSE @,
                    !.loading = FALSE]
           ELSE [productDetail EXCEPT !.error = ErrNotFound, !.loading = FALSE]
    /\ pdLast' = [outcome |-> outcome]
    /\ UNCHANGED <<pdEffects, sfVars, plVars, piVars, pgVars>>

\* the page of the product is rendered (neither the loader nor the error block)
ProductShown ==
    /\ ~productDetail.loading
    /\ productDetail.error = ""
    /\ productDetail.product # <<>>

\* the error block is rendered
ErrorShown == ~productDetail.loading /\ (productDetail.error # "" \/ productDetail.product = <<>>)

\* const allImages of the render
allImages(product) ==
    IF product.images # <<>> THEN product.images
    ELSE IF product.image_url # "" THEN <<product.image_url>>
    ELSE <<>>

\* a click on the thumbnail at index
setSelectedImage(index) ==
    /\ ProductShown
    /\ pdEffects = {}
    /\ Len(allImages(productDetail.product[1])) > 1
    /\ index \in 1..Len(allImages(productDetail.product[1]))
    /\ productDetail' = [productDetail EXCEPT
           !.selectedImage = allImages(productDetail.product[1])[index]]
    /\ UNCHANGED <<pdEffects, pdRequests, pdLast, sfVars, plVars, piVars, pgVars>>

\* the link of a similar product: the id of the route changes
openSimilar ==
    /\ ProductShown
    /\ productDetail.similarProducts # <<>>
    /\ pdEffects = {}
    /\ pdEffects' = {"fetch"}
    /\ UNCHANGED <<productDetail, pdRequests, pdLast, sfVars, plVars, piVars, pgVars>>

\* discount_price && discount_price < price: null and 0 are falsy
HasDiscount(product) ==
    /\ product.discount_price # Blank
    /\ product.discount_price # 0
    /\ product.discount_price < product.price

\* Math.round(n / d) for n >= 0, d > 0
Round(n, d) == (2 * n + d) \div (2 * d)

actualPrice(product) ==
    IF HasDiscount(product) THEN product.discount_price ELSE product.price

discountPercent(product) ==
    IF HasDiscount(product)
    THEN Round((product.price - product.discount_price) * 100, product.price)
    ELSE 0

\* the discount badge is rendered with the price
BadgeShown(product) == HasDiscount(product)

----------------------------------------------------------------------------
(* ProductGallery (part_002): the gallery that is given its images as      *)
(* objects with a url, a size and the mark of the main image.              *)

MaxGalleryImages == 2

\* the sizes the effect keeps, and one it drops
KeptSizes == {"big", "original", "516x688"}

GallerySizes == {"big", "516x688", "small"}

GalleryImages == [url : ImageUrls, size : GallerySizes, is_main : BOOLEAN]

GalleryImageLists == UNION {[1..n -> GalleryImages] : n \in 0..MaxGalleryImages}

\* the prop images: not passed, null, or a list
GalleryImageProps ==
    {[kind |-> k, list |-> <<>>] : k \in {"undefined", "null"}}
    \cup {[kind |-> "list", list |-> l] : l \in GalleryImageLists}

GalleryProps == [images : GalleryImageProps, mainImage : {"", "a.jpg"}]

ProductGalleryInit ==
    /\ pgProps \in GalleryProps
    /\ productGallery = [currentImage |-> pgProps.mainImage, galleryImages |-> <<>>,
                         showLightbox |-> FALSE, crashed |-> FALSE]
    /\ pgEffects = {"assemble"}

\* images.filter(...): the images of the sizes kept, in their order
filteredImages(images) == SelectSeq(images, LAMBDA img : img.size \in KeptSizes)

\* .sort(...): the comparator puts an image marked is_main before any other
\* and leaves the others as they are; with several marked images it is not
\* an ordering and the result is whatever the engine's sort makes of it
sortedImages(images) ==
    IF Cardinality({i \in 1..Len(images) : images[i].is_main}) <= 1
    THEN {SelectSeq(images, LAMBDA img : img.is_main)
          \o SelectSeq(images, LAMBDA img : ~img.is_main)}
    ELSE {[i \in 1..Len(images) |-> images[p[i]]] : p \in Permutations(1..Len(images))}

\* const resultImages: the main image first unless it is among the images
resultImages(mainImage, sorted) ==
    IF mainImage # "" /\ ~\E i \in 1..Len(sorted) : sorted[i].url = mainImage
    THEN <<[url |-> mainImage, is_main |-> TRUE, size |-> "big"]>> \o sorted
    ELSE sorted

\* useEffect on [images, mainImage]; the default [] of the parameter stands
\* for undefined only, so that null.filter throws and the tree is unmounted
galleryEffect ==
    /\ "assemble" \in pgEffects
    /\ pgEffects' = {}
    /\ IF pgProps.images.kind = "null"
       THEN productGallery' = [productGallery EXCEPT !.crashed = TRUE]
       ELSE \E sorted \in sortedImages(filteredImages(
                    IF pgProps.images.kind = "undefined" THEN <<>>
                    ELSE pgProps.images.list)) :
               LET result == resultImages(pgProps.mainImage, sorted)
               IN  productGallery' = [productGallery EXCEPT
                       !.galleryImages = result,
                       !.currentImage = IF Len(result) > 0 /\ @ = ""
                                        THEN result[1].url ELSE @]
    /\ UNCHANGED <<pgProps, sfVars, plVars, piVars, pdVars>>

\* what ProductGallery renders
GalleryView ==
    IF productGallery.crashed THEN "crashed"
    ELSE IF Len(productGallery.galleryImages) = 0 THEN "no-images"
    ELSE "gallery"

\* the strip of thumbnails of ProductGallery is rendered
StripRendered == GalleryView = "gallery" /\ Len(productGallery.galleryImages) > 1

\* a click on the thumbnail at index
setCurrentImage(index) ==
    /\ pgEffects = {}
    /\ StripRendered
    /\ index \in 1..Len(productGallery.galleryImages)
    /\ productGallery' = [productGallery EXCEPT
           !.currentImage = productGallery.galleryImages[index].url]
    /\ UNCHANGED <<pgProps, pgEffects, sfVars, plVars, piVars, pdVars>>

\* a click on the main image: galleryImages.length > 1 && setShowLightbox(true)
mainImageClick ==
    /\ pgEffects = {}
    /\ GalleryView = "gallery"
    /\ productGallery.currentImage # ""
    /\ productGallery' = [productGallery EXCEPT
           !.showLightbox = IF Len(productGallery.galleryImages) > 1 THEN TRUE ELSE @]
    /\ UNCHANGED <<pgProps, pgEffects, sfVars, plVars, piVars, pdVars>>

----------------------------------------------------------------------------
(* The views as state machines *)

ProductListInit ==
    /\ plRev \in {1, 2}
    /\ productList = IF plRev = 1 THEN InitialState_v1 ELSE InitialState_v2
    /\ plEffects = IF plRev = 1 THEN {"fetch"} ELSE {"fetch", "sync", "page", "apply"}
    /\ plTimer = <<>>
    /\ plFetches = <<>>
    /\ plLocation = NoPage
    /\ plPace \in {0, MaxOutstanding}
    /\ plLast = InitialHistory

\* the effects, the timer and the network of the list view
ProductListSystem ==
    \/ flushEffects_v1
    \/ flushEffects_v2
    \/ timerFired
    \/ delayElapsed_v2
    \/ \E i \in 1..Len(plFetches), ok \in BOOLEAN, range \in BackendRanges :
           listResponse_v1(i, ok, range)
    \/ \E i \in 1..Len(plFetches), ok \in BOOLEAN, range \in BackendRanges :
           listResponse_v2(i, ok, range)
    \/ \E i \in 1..Len(plFetches), ok \in BOOLEAN : chartsResponse(i, ok)

SearchFormNext == SearchFormStep

\* the gallery of objects as mounted, without props
GalleryAsMounted ==
    /\ ProductGalleryInit
    /\ pgProps = [images |-> [kind |-> "undefined", list |-> <<>>], mainImage |-> ""]

\* the gallery and the product page as mounted, the gallery with a product
\* without images
OtherViewsInit ==
    /\ ProductImagesInit /\ piProduct = NoImagesProduct
    /\ ProductDetailInit
    /\ GalleryAsMounted

\* one view is exercised at a time; the other stays as mounted
InitSearchForm == SearchFormInit /\ ProductListInit /\ OtherViewsInit /\ plRev = 1 /\ plPace = 0

\* a patient user waits for the responses before the next move
InitPatient == SearchFormInit /\ ProductListInit /\ OtherViewsInit /\ sfRev = 1 /\ plPace = 0

\* a hasty user does not
InitHasty == SearchFormInit /\ ProductListInit /\ OtherViewsInit /\ sfRev = 1 /\ plPace = MaxOutstanding

\* the search-submission view alone
SpecSearchForm == InitSearchForm /\ [][SearchFormNext]_vars

\* the list view, the user moving the sliders and clearing the filters
SlidersNext ==
    \/ ProductListSystem
    \/ \E v \in PricePoints : minPriceChange(v)
    \/ \E v \in PricePoints : maxPriceChange(v)
    \/ \E v \in RatingPoints : minRatingChange(v)
    \/ \E v \in RatingPoints : maxRatingChange(v)
    \/ clearFilters_v2

SpecSliders == InitPatient /\ [][SlidersNext]_vars

\* the list view, the user typing and applying a search, choosing a category
\* and clearing the filters
SearchNext ==
    \/ ProductListSystem
    \/ \E text \in SearchTexts : setSearchInput(text)
    \/ applySearch
    \/ \E c \in AllCategories \cup {""} : handleFormChange(c)
    \/ clearFilters_v2
    \/ \E k \in EditedKeys : \E v \in ValuesOf(k) : handleChange(k, v)
    \/ applyFilters
    \/ clearFilters_v1

SpecSearch == InitPatient /\ [][SearchNext]_vars

\* the list view, the user sorting only
SortOnlyNext ==
    \/ ProductListSystem
    \/ \E s \in ClickedSorts : handleSortChange_v2(s)
    \/ \E s \in ClickedSorts : handleSortChange_v1(s)

SpecSortOnly == InitHasty /\ [][SortOnlyNext]_vars

\* the list view, the user paging only
PagingNext ==
    \/ ProductListSystem
    \/ \E fwd \in BOOLEAN : navigate(fwd)
    \/ \E fwd \in BOOLEAN : setPage(fwd)

SpecPaging == InitHasty /\ [][PagingNext]_vars

\* the list view, the user sorting and paging
SortNext ==
    \/ ProductListSystem
    \/ \E s \in ClickedSorts : handleSortChange_v2(s)
    \/ \E fwd \in BOOLEAN : navigate(fwd)
    \/ \E s \in ClickedSorts : handleSortChange_v1(s)
    \/ \E fwd \in BOOLEAN : setPage(fwd)

SpecSort == InitHasty /\ [][SortNext]_vars

\* the list view, the user sorting, editing the filters and clearing them
SortAndFilterNext ==
    \/ ProductListSystem
    \/ \E s \in ClickedSorts : handleSortChange_v2(s)
    \/ \E c \in AllCategories \cup {""} : handleFormChange(c)
    \/ \E v \in PricePoints : minPriceChange(v)
    \/ \E v \in RatingPoints : maxRatingChange(v)
    \/ clearFilters_v2
    \/ \E s \in ClickedSorts : handleSortChange_v1(s)
    \/ \E k \in EditedKeys : \E v \in ValuesOf(k) : handleChange(k, v)
    \/ applyFilters
    \/ clearFilters_v1

SpecSortAndFilter == InitPatient /\ [][SortAndFilterNext]_vars

\* the gallery alone, with any product
InitImages ==
    /\ SearchFormInit /\ ProductListInit /\ sfRev = 1 /\ plRev = 1 /\ plPace = 0
    /\ ProductImagesInit /\ ProductDetailInit /\ GalleryAsMounted

ImagesNext ==
    \/ loadImages
    \/ \E ok \in BOOLEAN : probeResolved(ok)
    \/ \E index \in 1..(MaxImages + 1) : setMainImage(index)

SpecImages == InitImages /\ [][ImagesNext]_vars

\* the product page alone
InitDetail ==
    /\ SearchFormInit /\ ProductListInit /\ sfRev = 1 /\ plRev = 1 /\ plPace = 0
    /\ OtherViewsInit

DetailNext ==
    \/ fetchProduct
    \/ \E outcome \in DetailOutcomes, product \in DetailProducts, similar \in SimilarLists :
           productResponse(outcome, product, similar)
    \/ \E index \in 1..MaxImages : setSelectedImage(index)
    \/ openSimilar

SpecDetail == InitDetail /\ [][DetailNext]_vars

\* the gallery of objects alone, with any props
InitGallery ==
    /\ SearchFormInit /\ ProductListInit /\ sfRev = 1 /\ plRev = 1 /\ plPace = 0
    /\ ProductImagesInit /\ piProduct = NoImagesProduct
    /\ ProductDetailInit
    /\ ProductGalleryInit

GalleryNext ==
    \/ galleryEffect
    \/ \E index \in 1..(MaxGalleryImages + 1) : setCurrentImage(index)
    \/ mainImageClick

SpecGallery == InitGallery /\ [][GalleryNext]_vars

----------------
(* Claims about the search-submission view *)

BlankSubmitted == sfLast.event = "submit" /\ Trim(sfLast.form.searchQuery) = <<>>

\* C1: a submit of an empty or whitespace-only query leaves the view idle
\* (loading false), puts no POST in flight and sets the validation error,
\* whatever was submitted or edited before.
C1_BlankSubmitStaysIdle ==
    BlankSubmitted =>
        /\ ~searchForm.loading
        /\ sfPosts = <<>>
        /\ searchForm.error = ErrValidation

\* a whitespace-only query submitted after an earlier successful submission
C1_Witness ==
    /\ BlankSubmitted
    /\ sfLast.form.searchQuery # <<>>
    /\ searchForm.message = MsgSuccess

\* C2: at most one POST /api/start-parsing/ is in flight.
C2_OnePostInFlight == Len(sfPosts) <= 1

\* a request is in flight and the only enabled control has been used meanwhile
C2_Witness == Len(sfPosts) = 1 /\ sfLast.event = "example"

\* C3: the submit control is disabled (loading) exactly while the POST is in
\* flight: from the moment it is issued until it settles, and never after.
C3_LoadingWhileInFlight == searchForm.loading <=> Len(sfPosts) > 0

\* a submission has failed and the control is enabled again
C3_Witness == sfLast.event = "failure" /\ ~searchForm.loading /\ sfPosts = <<>>

FormCleared ==
    /\ searchForm.searchQuery = <<>>
    /\ searchForm.category = ""
    /\ sfRev = 1 => searchForm.limit = DefaultLimit

\* C4 as stated: after a success the fields are cleared, and after a failure
\* query, category and limit are the values they had at the submit.
C4_AsStated ==
    /\ sfLast.event = "success" => FormCleared
    /\ sfLast.event = "failure" => FormValues(searchForm) = sfLast.form

\* C27: the success confirmation and an error message are never both
\* displayed: at most one of message and error is non-empty, also after a
\* blank submission that follows a successful one.
C27_MessageOrErrorNotBoth ==
    ~(searchForm.message # "" /\ searchForm.error # "")

----------------------------------------------------------------------------
(* Claims about the catalog list view *)

\* C5: after any sequence of slider moves the draft bounds do not cross:
\* min_price <= max_price and min_rating <= max_rating.
C5_BoundsNeverCross ==
    plRev = 2 =>
        /\ productList.formState.min_price <= productList.formState.max_price
        /\ productList.formState.min_rating <= productList.formState.max_rating

\* the min price slider has been moved above the max bound
C5_Witness ==
    /\ plLast.moved.control = "minPrice"
    /\ plLast.moved.v > plLast.moved.max
    /\ productList.formState.min_price = productList.formState.max_price

\* the draft bounds the last slider move was about
MovedLo ==
    IF plLast.moved.control \in {"minPrice", "maxPrice"}
    THEN productList.formState.min_price ELSE productList.formState.min_rating

MovedHi ==
    IF plLast.moved.control \in {"minPrice", "maxPrice"}
    THEN productList.formState.max_price ELSE productList.formState.max_rating

MinPastMax == plLast.moved.control \in {"minPrice", "minRating"} /\ plLast.moved.v > plLast.moved.max

MaxPastMin == plLast.moved.control \in {"maxPrice", "maxRating"} /\ plLast.moved.v < plLast.moved.min

DraftSearch ==
    IF plRev = 2 THEN productList.searchInput ELSE productList.formState.search

EditsDraftSearch ==
    \/ \E text \in SearchTexts : setSearchInput(text)
    \/ \E text \in SearchTexts : handleChange("search", text)

\* C7: an edit of the draft search text leaves the applied filters as they
\* are, schedules no effect, arms no timer and issues no request; the applied
\* search text changes only in an apply or a clear of the filters.
C7_DraftSearchIsInert ==
    [][/\ EditsDraftSearch =>
            /\ productList'.filters = productList.filters
            /\ plEffects' = {}
            /\ plTimer' = plTimer
            /\ plFetches' = plFetches
       /\ productList'.filters.search # productList.filters.search =>
            applySearch \/ applyFilters \/ clearFilters_v1 \/ clearFilters_v2]_vars

\* a search text has been typed and not applied, and nothing is under way
C7_Witness ==
    /\ plLast.event = "typeSearch"
    /\ DraftSearch # productList.filters.search
    /\ plLast.issued = 0
    /\ plFetches = <<>> /\ plEffects = {} /\ plTimer = <<>>

\* C8: changes of the applied state that follow one another within the
\* debounce delay issue no request before the delay of the last one has
\* elapsed, and then exactly one, for the last state.
C8_Debounced ==
    /\ plLast.burst >= 2 => plLast.burstIssued = 0
    /\ plLast.settledOk

\* C9: no response is discarded: products and pagination hold the data of the
\* list response that completed last (revision 1 empties the list when the
\* filters change).
C9_LastCompletedWins ==
    plLast.completed # <<>> =>
        LET q == plLast.completed[1]
        IN  /\ productList.pagination =
                   [count |-> BackendCount(q), next |-> BackendNext(q),
                    previous |-> BackendPrevious(q)]
            /\ \/ productList.products = BackendResults(q)
               \/ plRev = 1 /\ productList.products = <<>>

\* nothing is in flight, and the products shown answer filters that are no
\* longer the applied ones
C9_Witness ==
    /\ plRev = 2
    /\ plFetches = <<>> /\ plEffects = {}
    /\ productList.products # <<>>
    /\ productList.products[1] # productList.filters
    /\ plLast.completed = productList.products

\* C10: from the clear of the filters on, through the effects it schedules,
\* draft and applied state both hold the defaults: empty search and category,
\* the full known price range (no price bound in revision 1), rating 0 to 5
\* (no rating bound in revision 1), sort '-created_at'.
C10_ClearIsAtomic ==
    plLast.event = "clearFilters" =>
        IF plRev = 2
        THEN LET d == [search |-> "", category |-> "",
                       min_price |-> productList.globalPriceRange.min,
                       max_price |-> productList.globalPriceRange.max,
                       min_rating |-> 0, max_rating |-> 5,
                       min_reviews |-> Blank, max_reviews |-> Blank,
                       sort |-> "-created_at", limit |-> 10]
             IN  /\ productList.formState = d
                 /\ [k \in DOMAIN d |-> productList.filters[k]] = d
                 /\ productList.searchInput = ""
        ELSE /\ productList.formState =
                    [search |-> "", category |-> "", min_price |-> Blank,
                     max_price |-> Blank, min_rating |-> Blank, min_reviews |-> Blank]
             /\ productList.filters =
                    [search |-> "", category |-> "", min_price |-> Blank,
                     max_price |-> Blank, min_rating |-> Blank, min_reviews |-> Blank,
                     sort |-> "-created_at"]

\* the filters were cleared, the effects of the clear have run, the live-apply
\* effect among them, and the requests are out
C10_Witness ==
    /\ plRev = 2
    /\ plLast.event = "clearFilters"
    /\ plEffects = {}
    /\ plLast.issued >= 2

\* the requests issued since the last user event
IssuedSinceEvent ==
    {i \in 1..Len(plFetches) : i > Len(plFetches) - plLast.issued}

FilterKeys ==
    {"search", "category", "min_price", "max_price", "min_rating", "max_rating",
     "min_reviews", "max_reviews"}

\* C11: a clear of the filters is followed by exactly one list request, and
\* that request carries no filter parameter.
C11_OneFetchNoFilters ==
    plLast.event = "clearFilters" =>
        /\ plLast.issued <= 1
        /\ (plEffects = {} /\ plTimer = <<>>) => plLast.issued = 1
        /\ \A i \in IssuedSinceEvent : DOMAIN ListParamsOf(plFetches[i]) \cap FilterKeys = {}

\* C12: a click on the sort button of the active key leaves the applied
\* filters as they are and schedules no fetch.
C12_ActiveSortIsNoOp ==
    [][\A sort \in ClickedSorts :
          (/\ handleSortChange_v1(sort) \/ handleSortChange_v2(sort)
           /\ sort = productList.filters.sort)
          => /\ productList'.filters = productList.filters
             /\ plEffects' = {}]_vars

NotSentWithCharts == {"sort", "page", "limit"}

\* C13 as stated: the chart requests of a fetch carry exactly the parameters
\* of its list request, sort, page and limit excepted, with the same values.
C13_AsStated ==
    \A i \in 1..Len(plFetches) :
        LET L == ListParamsOf(plFetches[i])
            C == ChartParamsOf(plFetches[i])
        IN  /\ DOMAIN C = DOMAIN L \ NotSentWithCharts
            /\ \A k \in DOMAIN C : C[k] = L[k]

\* C13 amended: the chart requests of a fetch carry exactly the parameters
\* its list request carries with a non-empty value, sort, page and limit
\* excepted, with the same values (the list request of revision 2 also
\* carries the empty ones).
C13_ChartsCarryNonEmptyFilters ==
    \A i \in 1..Len(plFetches) :
        LET L == ListParamsOf(plFetches[i])
            C == ChartParamsOf(plFetches[i])
        IN  /\ DOMAIN C = {k \in DOMAIN L \ NotSentWithCharts : NotEmptyAt(k, L[k])}
            /\ \A k \in DOMAIN C : C[k] = L[k]

\* a fetch of revision 2 with a search text and another of revision 1 alike
C13_Witness ==
    \E i \in 1..Len(plFetches) :
        /\ plFetches[i].filters.search # ""
        /\ "search" \in DOMAIN ChartParamsOf(plFetches[i])
        /\ "sort" \in DOMAIN ListParamsOf(plFetches[i])

FollowsMountOrClear(i) ==
    \/ plLast.event = "mount"
    \/ plLast.event = "clearFilters" /\ i \in IssuedSinceEvent

\* C23: the first list response of the mounted view, and the response that
\* follows 'clear filters', leave the global price range equal to the
\* price_range they carry.
C23_RangeAdoptedAfterReset ==
    [][\A i \in 1..Len(plFetches), range \in BackendRanges \ {NoRange} :
          (listResponse_v2(i, TRUE, range) /\ FollowsMountOrClear(i))
          => productList'.globalPriceRange = range]_vars

\* C24: the applied sort key changes only in a click on a sort button or
\* in 'clear filters'; applying the draft, or a change of the category, the
\* price, the rating or the reviews controls, leaves it as it is.
C24_SortChangesBySortOrClear ==
    [][productList'.filters.sort # productList.filters.sort
       => \/ \E s \in ClickedSorts : handleSortChange_v1(s) \/ handleSortChange_v2(s)
          \/ clearFilters_v1
          \/ clearFilters_v2]_vars

\* C25: the error block of the list view is shown only while the list
\* request completed last is a failed one: a list request that completes
\* successfully leaves the view rendering the list and its controls.
C25_SuccessClearsError ==
    [][\A i \in 1..Len(plFetches), range \in BackendRanges :
          (listResponse_v1(i, TRUE, range) \/ listResponse_v2(i, TRUE, range))
          => \/ productList'.error = ""
             \/ productList'.loading /\ productList'.products = <<>>]_vars

----------------------------------------------------------------------------
(* Claims about the image gallery *)

\* the candidates of images whose probe, in results, succeeded, in order
RECURSIVE Kept(_, _)
Kept(images, results) ==
    IF images = <<>> \/ results = <<>> THEN <<>>
    ELSE (IF Head(results) THEN <<Head(images)>> ELSE <<>>)
         \o Kept(Tail(images), Tail(results))

\* C16: the list the helper resolves is the subsequence of the candidates
\* (primary image first, then the additional images in their order) whose
\* probes succeeded, in the order of the candidates: while it probes, of
\* the candidates probed so far; when the gallery shows, of all of them.
C16_ResolvedIsKeptSubsequence ==
    /\ piLoad.started =>
           piLoad.availableImages = Kept(Candidates(piProduct), piLoad.results)
    /\ ~productImages.loading =>
           /\ Len(piLoad.results) = Len(Candidates(piProduct))
           /\ productImages.allImages = Kept(Candidates(piProduct), piLoad.results)

\* three candidates, only the second failed: the list is the first and the third
C16_Witness ==
    /\ ~productImages.loading
    /\ piLoad.results = <<TRUE, FALSE, TRUE>>
    /\ productImages.allImages = <<Candidates(piProduct)[1], Candidates(piProduct)[3]>>

NoProbeSucceeded == \A i \in 1..Len(piLoad.results) : ~piLoad.results[i]

\* C17: when none of the candidates loads, or there is no candidate, the
\* gallery ends with the placeholder as its main image and without the
\* strip of thumbnails.
C17_NoImageFallsBack ==
    (~productImages.loading /\ NoProbeSucceeded)
    => /\ productImages.mainImage = Placeholder
       /\ productImages.allImages = <<>>
       /\ ~ThumbnailsRendered

\* a product with several candidates, none of which loaded
C17_Witness ==
    /\ ~productImages.loading
    /\ Len(piLoad.results) >= 2
    /\ NoProbeSucceeded
    /\ productImages.mainImage = Placeholder

\* the candidates whose probe has been started
Probed == piLoad.inFlight \cup 1..Len(piLoad.results)

\* C20, as stated: the probes run concurrently, so that while the gallery
\* loads every candidate's probe has been started, and the gallery leaves
\* its loading state only when all have resolved.
C20_AsStated ==
    piLoad.started =>
        /\ productImages.loading => Probed = 1..Len(piLoad.images)
        /\ ~productImages.loading =>
               /\ piLoad.inFlight = {}
               /\ Len(piLoad.results) = Len(piLoad.images)

\* C20: the probes run one at a time, in the order of the candidates, the
\* probe of a candidate being started when that of the one before has
\* resolved; the gallery leaves its loading state only when all have.
C20_ProbesInTurn ==
    /\ piLoad.inFlight \subseteq {Len(piLoad.results) + 1}
    /\ ~productImages.loading =>
           /\ piLoad.inFlight = {}
           /\ Len(piLoad.results) = Len(Candidates(piProduct))

\* the second of three probes is awaited: the first has resolved, the third
\* has not been started
C20_Witness ==
    /\ productImages.loading
    /\ Len(piLoad.images) = 3
    /\ piLoad.inFlight = {2}
    /\ Len(piLoad.results) = 1

\* no element of the sequence occurs at two positions
NoRepeats(urls) == \A i, j \in 1..Len(urls) : urls[i] = urls[j] => i = j

\* C21: the list the gallery has assembled holds no url twice, also when
\* the primary image is among the additional images or an additional
\* image is given twice.
C21_NoUrlTwice ==
    ~productImages.loading => NoRepeats(productImages.allImages)

----------------------------------------------------------------------------
(* Claims about the product page *)

\* the failures of a lookup other than 'not found'
GenericFailures == {"server_error", "network_error"}

\* C18: a lookup that ends with 404 and one that fails otherwise leave the
\* page in error states that differ: the message shown after a failure of
\* the server or of the transport is not the one of 'not found'.
C18_NotFoundIsDistinct ==
    (ErrorShown /\ pdLast.outcome \in GenericFailures)
    => productDetail.error # ErrNotFound

\* the percentage nearest to the share of the price that is taken off,
\* a half going up
NearestPercent(product) ==
    CHOOSE n \in 0..100 :
        LET off == 100 * (product.price - product.discount_price)
        IN  /\ 2 * n * product.price <= 2 * off + product.price
            /\ 2 * off + product.price < 2 * (n + 1) * product.price

\* discount_price is present (0 included) and below price
DiscountedAsStated(product) ==
    product.discount_price # Blank /\ product.discount_price < product.price

\* C19: the price shown for a product is discount_price when that is
\* present (0 included) and below price, with the discount of
\* round((price - discount_price) / price * 100) percent, and price
\* otherwise, without a percentage.
C19_AsStated ==
    ProductShown =>
        LET product == productDetail.product[1]
        IN  IF DiscountedAsStated(product)
            THEN /\ actualPrice(product) = product.discount_price
                 /\ BadgeShown(product)
                 /\ discountPercent(product) = NearestPercent(product)
            ELSE /\ actualPrice(product) = product.price
                 /\ ~BadgeShown(product)

\* the image urls of a product: of its images and its image_url
UrlsOf(product) ==
    {product.images[i] : i \in 1..Len(product.images)}
    \cup (IF product.image_url # "" THEN {product.image_url} ELSE {})

\* C26: whenever a product is displayed, the selected main image is unset
\* or one of the image urls of that product, whatever changes of the route
\* id and clicks on thumbnails came before.
C26_SelectedImageIsOfProduct ==
    ProductShown =>
        \/ productDetail.selectedImage = ""
        \/ productDetail.selectedImage \in UrlsOf(productDetail.product[1])

----------------------------------------------------------------------------
(* Claims about the gallery of objects *)

\* the props carry no image: images not passed, null or empty, no main image
NoImageGiven == pgProps.images.list = <<>> /\ pgProps.mainImage = ""

\* C22: the gallery does not fail on a missing or empty list of images:
\* with images undefined, null or empty and no main image it renders the
\* 'no images' block, and its strip of thumbnails is rendered only with
\* more than one assembled image.
C22_NeverFails ==
    /\ GalleryView # "crashed"
    /\ (pgEffects = {} /\ NoImageGiven) => GalleryView = "no-images"
    /\ StripRendered => Len(productGallery.galleryImages) > 1

====
